---------------------------- MODULE Spec2Model ----------------------------
(* A model of secure_csv_writer.py: the cell sanitizer, the path validator *)
(* and the write / append pipelines over a small file system.  Text is a   *)
(* sequence of one-character strings, so that prefixes, suffixes, quoting  *)
(* and parsing are computed character by character.                        *)
EXTENDS Integers, Sequences, FiniteSets, TLC

VARIABLES
  cellIn,     \* the value handed to sanitize_cell
  cellOut,    \* what sanitize_cell returned for cellIn ("pending" before the call)
  rawPath,    \* the raw path string handed to validate_filepath
  validated,  \* what validate_filepath did with rawPath
  fs,         \* the file system: directories and files with their contents
  call,       \* the last call of write_csv_secure / append_csv_secure and its outcome
  log         \* the records the calls since the last successful write have put in a file

vars == <<cellIn, cellOut, rawPath, validated, fs, call, log>>

-----------------------------------------------------------------------------
(* Bounds *)

\* longest text handed to sanitize_cell
MaxLen == 2
\* most tokens in a raw path handed to validate_filepath
MaxTokens == 4
\* most rows in one call
MaxRows == 2
\* most data records a file is let grow to
MaxRecords == 3

-----------------------------------------------------------------------------
(* Text helpers *)

\* all sequences over S of length at most n
RECURSIVE SeqsUpTo(_, _)
SeqsUpTo(S, n) ==
  IF n = 0 THEN {<<>>}
  ELSE LET shorter == SeqsUpTo(S, n - 1)
       IN  shorter \cup {Append(s, c) : s \in {t \in shorter : Len(t) = n - 1}, c \in S}

\* str.startswith(prefix) for a one-character prefix out of a set
StartsWithAny(s, prefixes) == Len(s) > 0 /\ s[1] \in prefixes

Digit(d) == CASE d = 0 -> "0" [] d = 1 -> "1" [] d = 2 -> "2" [] d = 3 -> "3"
              [] d = 4 -> "4" [] d = 5 -> "5" [] d = 6 -> "6" [] d = 7 -> "7"
              [] d = 8 -> "8" [] d = 9 -> "9"

\* the decimal digits of a natural number
RECURSIVE NatText(_)
NatText(n) == IF n < 10 THEN <<Digit(n)>> ELSE Append(NatText(n \div 10), Digit(n % 10))

-----------------------------------------------------------------------------
(* Values and str(value) *)

NoneV == [t |-> "none"]
TextV(s) == [t |-> "text", s |-> s]
IntV(n) == [t |-> "int", n |-> n]
BoolV(b) == [t |-> "bool", b |-> b]

\* str(value): the canonical text of a scalar
Str(value) ==
  CASE value.t = "text" -> value.s
    [] value.t = "int"  -> IF value.n < 0 THEN <<"-">> \o NatText(0 - value.n)
                           ELSE NatText(value.n)
    [] value.t = "bool" -> IF value.b THEN <<"T", "r", "u", "e">>
                           ELSE <<"F", "a", "l", "s", "e">>
    [] value.t = "none" -> <<"N", "o", "n", "e">>

-----------------------------------------------------------------------------
(* sanitize_cell *)

dangerous_prefixes == {"=", "+", "-", "@", "\t", "\r", "\n"}

\* a sanitizer that treats the apostrophe as dangerous too
sanitize_cell_quote_too(value) ==
  IF value.t = "none" THEN <<>>
  ELSE IF StartsWithAny(Str(value), dangerous_prefixes \cup {"'"})
       THEN <<"'">> \o Str(value)
       ELSE Str(value)

\* a sanitizer that forgets the '-' prefix
sanitize_cell_no_minus(value) ==
  IF value.t = "none" THEN <<>>
  ELSE IF StartsWithAny(Str(value), dangerous_prefixes \ {"-"})
       THEN <<"'">> \o Str(value)
       ELSE Str(value)

sanitize_cell(value) ==
  IF value.t = "none" THEN <<>>
  ELSE LET str_value == Str(value)
       IN  IF StartsWithAny(str_value, dangerous_prefixes)
           THEN <<"'">> \o str_value
           ELSE str_value

-----------------------------------------------------------------------------
(* Paths: Path(filepath).resolve(), Path.suffix, str.lower() *)

\* filepath.split(sep): the pieces of s between the separators
RECURSIVE SplitOn(_, _)
SplitOn(s, sep) ==
  IF s = <<>> THEN <<<<>>>>
  ELSE LET rest == SplitOn(Tail(s), sep)
       IN  IF Head(s) = sep THEN <<<<>>>> \o rest
           ELSE <<<<Head(s)>> \o Head(rest)>> \o Tail(rest)

\* the components of a raw path: empty pieces and "." pieces are dropped
Components(raw) == SelectSeq(SplitOn(raw, "/"), LAMBDA c : c # <<>> /\ c # <<".">>)

\* the working directory, /w
Cwd == << <<"w">> >>

\* the symbolic links of the host: /w/l -> /w/a.csv and /w/l.csv -> /w/a.txt
Links ==
  ( << <<"w">>, <<"l">> >> :> << <<"w">>, <<"a", ".", "c", "s", "v">> >> ) @@
  ( << <<"w">>, <<"l", ".", "c", "s", "v">> >> :> << <<"w">>, <<"a", ".", "t", "x", "t">> >> )

\* os.path.realpath: walk the components from a resolved prefix, popping on "..",
\* following a symbolic link where the prefix names one
RECURSIVE Walk(_, _)
Walk(path, comps) ==
  IF comps = <<>> THEN path
  ELSE LET name == Head(comps)
           newpath == Append(path, name)
       IN  IF name = <<".", ".">>
           THEN Walk(IF path = <<>> THEN path ELSE SubSeq(path, 1, Len(path) - 1), Tail(comps))
           ELSE IF newpath \in DOMAIN Links
                THEN Walk(Links[newpath], Tail(comps))
                ELSE Walk(newpath, Tail(comps))

\* a resolution that leaves symbolic links alone
ResolveLexical(raw) ==
  LET RECURSIVE Lex(_, _)
      Lex(path, comps) ==
        IF comps = <<>> THEN path
        ELSE IF Head(comps) = <<".", ".">>
             THEN Lex(IF path = <<>> THEN path ELSE SubSeq(path, 1, Len(path) - 1), Tail(comps))
             ELSE Lex(Append(path, Head(comps)), Tail(comps))
  IN  Lex(IF StartsWithAny(raw, {"/"}) THEN <<>> ELSE Cwd, Components(raw))

\* Path(filepath).resolve(): absolute, normalized, symbolic links followed
Resolve(raw) ==
  Walk(IF StartsWithAny(raw, {"/"}) THEN <<>> ELSE Cwd, Components(raw))

\* the index of the last "." of a name, 0 when it has none (str.rfind)
RECURSIVE RFindDot(_)
RFindDot(name) ==
  IF name = <<>> THEN 0
  ELSE IF name[Len(name)] = "." THEN Len(name)
       ELSE RFindDot(SubSeq(name, 1, Len(name) - 1))

\* Path.suffix: the last component from its last dot on, when that dot is
\* neither its first nor its last character
Suffix(path) ==
  IF path = <<>> THEN <<>>
  ELSE LET name == path[Len(path)]
           i == RFindDot(name)
       IN  IF 1 < i /\ i < Len(name) THEN SubSeq(name, i, Len(name)) ELSE <<>>

LowerChar(c) ==
  CASE c = "A" -> "a" [] c = "C" -> "c" [] c = "S" -> "s" [] c = "V" -> "v"
    [] c = "T" -> "t" [] c = "X" -> "x" [] OTHER -> c

\* str.lower()
Lower(s) == [i \in 1..Len(s) |-> LowerChar(s[i])]

\* ".." in str(filepath)
ContainsDotDot(raw) == \E i \in 1..(Len(raw) - 1) : raw[i] = "." /\ raw[i + 1] = "."

-----------------------------------------------------------------------------
(* validate_filepath *)

Accepted(path) == [kind |-> "ok", path |-> path]
Rejected(kind) == [kind |-> kind]

\* a validator that looks for ".." in the resolved path, where none is left
validate_filepath_resolved_check(filepath) ==
  LET path == Resolve(filepath)
  IN  IF \E i \in 1..Len(path) : path[i] = <<".", ".">> THEN Rejected("invalid-path")
      ELSE IF Lower(Suffix(path)) # <<".", "c", "s", "v">> THEN Rejected("invalid-extension")
      ELSE Accepted(path)

\* a validator that never resolves: it judges and returns the normalized raw path
validate_filepath_unresolved(filepath) ==
  LET path == ResolveLexical(filepath)
  IN  IF ContainsDotDot(filepath) THEN Rejected("invalid-path")
      ELSE IF Lower(Suffix(path)) # <<".", "c", "s", "v">> THEN Rejected("invalid-extension")
      ELSE Accepted(path)

validate_filepath(filepath) ==
  LET path == Resolve(filepath)
  IN  IF ContainsDotDot(filepath) THEN Rejected("invalid-path")
      ELSE IF Lower(Suffix(path)) # <<".", "c", "s", "v">> THEN Rejected("invalid-extension")
      ELSE Accepted(path)

-----------------------------------------------------------------------------
(* Rows, csv.DictWriter and csv.reader *)

\* A row is a dict in insertion order: a sequence of <<key, value>> pairs with
\* distinct keys, a key being text and a value a scalar.
RowKeys(row) == [i \in 1..Len(row) |-> row[i][1]]

HasKey(row, key) == \E i \in 1..Len(row) : row[i][1] = key

\* row[key]
RowValue(row, key) == row[CHOOSE i \in 1..Len(row) : row[i][1] = key][2]

Last(S) == CHOOSE i \in S : \A j \in S : j <= i

\* a row whose keys are left as they are, only the values sanitized
SanitizeRowValuesOnly(row) ==
  [k \in {row[i][1] : i \in 1..Len(row)} |-> sanitize_cell(RowValue(row, k))]

\* {sanitize_cell(key): sanitize_cell(value) for key, value in row.items()}:
\* of two keys with the same sanitized form the later one stays
SanitizeRow(row) ==
  LET skey(i) == sanitize_cell(TextV(row[i][1]))
  IN  [k \in {skey(i) : i \in 1..Len(row)} |->
         sanitize_cell(row[Last({i \in 1..Len(row) : skey(i) = k})][2])]

\* DictWriter._dict_to_list with extrasaction='ignore' and restval='':
\* one field per fieldname, in order
DictToList(fieldnames, rowdict) ==
  [j \in 1..Len(fieldnames) |->
     IF fieldnames[j] \in DOMAIN rowdict THEN rowdict[fieldnames[j]] ELSE <<>>]

RECURSIVE DoubleQuotes(_)
DoubleQuotes(s) ==
  IF s = <<>> THEN <<>>
  ELSE (IF Head(s) = "\"" THEN <<"\"", "\"">> ELSE <<Head(s)>>) \o DoubleQuotes(Tail(s))

\* QUOTE_ALL: the field between quotes, its own quotes doubled
QuoteField(field) == <<"\"">> \o DoubleQuotes(field) \o <<"\"">>

RECURSIVE JoinFields(_)
JoinFields(fields) ==
  IF fields = <<>> THEN <<>>
  ELSE IF Len(fields) = 1 THEN QuoteField(fields[1])
       ELSE QuoteField(Head(fields)) \o <<",">> \o JoinFields(Tail(fields))

\* writer.writerow: the quoted fields, comma-separated, ended by CR LF
WriteRow(fields) == JoinFields(fields) \o <<"\r", "\n">>

RECURSIVE WriteRows(_)
WriteRows(records) ==
  IF records = <<>> THEN <<>> ELSE WriteRow(Head(records)) \o WriteRows(Tail(records))

\* csv.reader over a file opened with newline='': one record, read from index
\* i of the text on; next is the index the following record starts at.  The
\* parser states are those of the reader (START_RECORD, START_FIELD, IN_FIELD,
\* IN_QUOTED_FIELD, QUOTE_IN_QUOTED_FIELD, EAT_CRNL); EAT_CR is EAT_CRNL right
\* after a CR, where a LF still belongs to the same line.
RECURSIVE ParseFrom(_, _, _, _, _)
ParseFrom(st, s, i, field, rec) ==
  IF i > Len(s)
  THEN [rec |-> IF st \in {"EAT_CR", "EAT_NL"} THEN rec ELSE Append(rec, field), next |-> i]
  ELSE LET c == s[i]
           eat == IF c = "\r" THEN "EAT_CR" ELSE "EAT_NL"
       IN  CASE st \in {"EAT_NL", "EAT_CR"} ->
                  IF st = "EAT_CR" /\ c = "\n"
                  THEN ParseFrom("EAT_NL", s, i + 1, <<>>, rec)
                  ELSE [rec |-> rec, next |-> i]
             [] st \in {"START_RECORD", "START_FIELD"} ->
                  IF c \in {"\r", "\n"}
                  THEN ParseFrom(eat, s, i + 1, <<>>,
                                 IF st = "START_FIELD" THEN Append(rec, <<>>) ELSE rec)
                  ELSE IF c = "\"" THEN ParseFrom("IN_QUOTED_FIELD", s, i + 1, <<>>, rec)
                  ELSE IF c = "," THEN ParseFrom("START_FIELD", s, i + 1, <<>>, Append(rec, <<>>))
                  ELSE ParseFrom("IN_FIELD", s, i + 1, <<c>>, rec)
             [] st = "IN_FIELD" ->
                  IF c \in {"\r", "\n"} THEN ParseFrom(eat, s, i + 1, <<>>, Append(rec, field))
                  ELSE IF c = "," THEN ParseFrom("START_FIELD", s, i + 1, <<>>, Append(rec, field))
                  ELSE ParseFrom("IN_FIELD", s, i + 1, Append(field, c), rec)
             [] st = "IN_QUOTED_FIELD" ->
                  IF c = "\"" THEN ParseFrom("QUOTE_IN_QUOTED_FIELD", s, i + 1, field, rec)
                  ELSE ParseFrom("IN_QUOTED_FIELD", s, i + 1, Append(field, c), rec)
             [] st = "QUOTE_IN_QUOTED_FIELD" ->
                  IF c = "\"" THEN ParseFrom("IN_QUOTED_FIELD", s, i + 1, Append(field, c), rec)
                  ELSE IF c = "," THEN ParseFrom("START_FIELD", s, i + 1, <<>>, Append(rec, field))
                  ELSE IF c \in {"\r", "\n"}
                  THEN ParseFrom(eat, s, i + 1, <<>>, Append(rec, field))
                  ELSE ParseFrom("IN_FIELD", s, i + 1, Append(field, c), rec)

\* list(csv.reader(csvfile)): the records of the text, one after the other
RECURSIVE ParseAll(_, _, _)
ParseAll(s, i, recs) ==
  IF i > Len(s) THEN recs
  ELSE LET r == ParseFrom("START_RECORD", s, i, <<>>, <<>>)
       IN  ParseAll(s, r.next, Append(recs, r.rec))

ParseRecords(content) == ParseAll(content, 1, <<>>)

\* csv.DictReader(csvfile).fieldnames: the first record of the file, None when
\* the file has no record
NoFieldnames == [none |-> TRUE]
ReaderFieldnames(content) ==
  IF content = <<>> THEN NoFieldnames
  ELSE [none |-> FALSE, names |-> ParseFrom("START_RECORD", content, 1, <<>>, <<>>).rec]

-----------------------------------------------------------------------------
(* The file system *)

\* no file at all
NoFiles == [p \in {} |-> <<>>]

\* the host before the first call: the root and the working directory
EmptyFs == [dirs |-> {<<>>, Cwd}, files |-> NoFiles]

\* Path.parent
Parent(path) == IF path = <<>> THEN path ELSE SubSeq(path, 1, Len(path) - 1)

Prefixes(path) == {SubSeq(path, 1, k) : k \in 0..Len(path)}

\* Path.exists()
Exists(f, path) == path \in f.dirs \/ path \in DOMAIN f.files

\* Path.mkdir(parents=True, exist_ok=True): the missing directories of the chain
\* are created; it fails when a name of the chain is a file
Mkdir(f, dir) ==
  IF \E q \in Prefixes(dir) : q \in DOMAIN f.files
  THEN [ok |-> FALSE, fs |-> f]
  ELSE [ok |-> TRUE, fs |-> [f EXCEPT !.dirs = @ \cup Prefixes(dir)]]

\* open(path, 'w') ... write ... close, then os.chmod(path, mode)
PutFile(f, path, content, mode) ==
  [f EXCEPT !.files = (path :> [content |-> content, mode |-> mode]) @@ @]

\* open(path, 'a') ... write ... close
ExtendFile(f, path, content) ==
  [f EXCEPT !.files[path].content = @ \o content]

-----------------------------------------------------------------------------
(* write_csv_secure and append_csv_secure *)

\* how a call ends: "ok", a validation kind, "io-failure" (the IOError raised at
\* line 114, carrying its cause) or "os-error" (an OSError of the host that
\* left the call as it was raised, with no cause attached)
Outcome(kind, cause) == [kind |-> kind, cause |-> cause]
Done(f, kind) == [fs |-> f, outcome |-> Outcome(kind, "")]

\* fieldnames: None, or a list of names
Fieldnames(names) == [none |-> FALSE, names |-> names]

\* the records handed to the writer for the rows: each sanitized row as a
\* list over the fieldnames
RowRecords(data, fieldnames) ==
  [i \in 1..Len(data) |-> DictToList(fieldnames, SanitizeRow(data[i]))]

\* a write that opens the file with mode 'a'
write_csv_secure_append_mode(f, filepath, data, fieldnames, file_permissions) ==
  IF data = <<>> THEN Done(f, "empty-input")
  ELSE LET v == validate_filepath(filepath)
       IN  IF v.kind # "ok" THEN Done(f, v.kind)
           ELSE LET names == IF fieldnames.none THEN RowKeys(data[1]) ELSE fieldnames.names
                    made == Mkdir(f, Parent(v.path))
                    safe_fieldnames == [j \in 1..Len(names) |-> sanitize_cell(TextV(names[j]))]
                    text == WriteRows(<<safe_fieldnames>> \o RowRecords(data, safe_fieldnames))
                IN  IF ~made.ok THEN [fs |-> made.fs, outcome |-> Outcome("os-error", "")]
                    ELSE IF v.path \in made.fs.dirs
                    THEN [fs |-> made.fs, outcome |-> Outcome("io-failure", "IsADirectoryError")]
                    ELSE IF v.path \in DOMAIN made.fs.files
                    THEN Done([ExtendFile(made.fs, v.path, text)
                                 EXCEPT !.files[v.path].mode = file_permissions], "ok")
                    ELSE Done(PutFile(made.fs, v.path, text, file_permissions), "ok")

\* a write that creates the parent directories before it validates the path
write_csv_secure_mkdir_first(f, filepath, data, fieldnames, file_permissions) ==
  LET made == Mkdir(f, Parent(Resolve(filepath)))
      v == validate_filepath(filepath)
  IN  IF data = <<>> THEN Done(f, "empty-input")
      ELSE IF ~made.ok THEN [fs |-> made.fs, outcome |-> Outcome("os-error", "")]
      ELSE IF v.kind # "ok" THEN Done(made.fs, v.kind)
      ELSE LET names == IF fieldnames.none THEN RowKeys(data[1]) ELSE fieldnames.names
               safe_fieldnames == [j \in 1..Len(names) |-> sanitize_cell(TextV(names[j]))]
               text == WriteRows(<<safe_fieldnames>> \o RowRecords(data, safe_fieldnames))
           IN  IF v.path \in made.fs.dirs
               THEN [fs |-> made.fs, outcome |-> Outcome("io-failure", "IsADirectoryError")]
               ELSE Done(PutFile(made.fs, v.path, text, file_permissions), "ok")

write_csv_secure(f, filepath, data, fieldnames, file_permissions) ==
  IF data = <<>> THEN Done(f, "empty-input")
  ELSE LET v == validate_filepath(filepath)
       IN  IF v.kind # "ok" THEN Done(f, v.kind)
           ELSE LET safe_path == v.path
                    names == IF fieldnames.none THEN RowKeys(data[1]) ELSE fieldnames.names
                    \* line 83, before the try: a failure leaves as it is raised
                    made == Mkdir(f, Parent(safe_path))
                    safe_fieldnames == [j \in 1..Len(names) |-> sanitize_cell(TextV(names[j]))]
                    text == WriteRows(<<safe_fieldnames>> \o RowRecords(data, safe_fieldnames))
                IN  IF ~made.ok THEN [fs |-> made.fs, outcome |-> Outcome("os-error", "")]
                    \* lines 97-114: open() of a directory fails inside the try
                    ELSE IF safe_path \in made.fs.dirs
                    THEN [fs |-> made.fs, outcome |-> Outcome("io-failure", "IsADirectoryError")]
                    ELSE Done(PutFile(made.fs, safe_path, text, file_permissions), "ok")

\* an append that looks for the file before it validates the path
append_csv_secure_exists_first(f, filepath, data) ==
  IF data = <<>> THEN Done(f, "empty-input")
  ELSE LET v == validate_filepath(filepath)
           path == Resolve(filepath)
       IN  IF ~Exists(f, path) THEN Done(f, "not-found")
           ELSE IF v.kind # "ok" THEN Done(f, v.kind)
           ELSE IF path \in f.dirs THEN [fs |-> f, outcome |-> Outcome("os-error", "")]
           ELSE LET fieldnames == ReaderFieldnames(f.files[path].content)
                IN  IF fieldnames.none \/ fieldnames.names = <<>> THEN Done(f, "no-header")
                    ELSE Done(ExtendFile(f, path, WriteRows(RowRecords(data, fieldnames.names))), "ok")

append_csv_secure(f, filepath, data) ==
  IF data = <<>> THEN Done(f, "empty-input")
  ELSE LET v == validate_filepath(filepath)
       IN  IF v.kind # "ok" THEN Done(f, v.kind)
           ELSE LET safe_path == v.path
                IN  IF ~Exists(f, safe_path) THEN Done(f, "not-found")
                    \* line 139, under no try: open() of a directory fails
                    ELSE IF safe_path \in f.dirs
                    THEN [fs |-> f, outcome |-> Outcome("os-error", "")]
                    ELSE LET fieldnames == ReaderFieldnames(f.files[safe_path].content)
                         IN  IF fieldnames.none \/ fieldnames.names = <<>>
                             THEN Done(f, "no-header")
                             ELSE Done(ExtendFile(f, safe_path,
                                         WriteRows(RowRecords(data, fieldnames.names))), "ok")

-----------------------------------------------------------------------------
(* Inputs *)

Pending == [kind |-> "pending", text |-> <<>>, first |-> <<>>, n |-> 0]
NotValidated == [kind |-> "pending"]
NoCall == [op |-> "none"]
NoLog == [p \in {} |-> <<>>]

\* the characters sanitize_cell is tried on: the dangerous ones, the apostrophe
\* and a harmless one
CellChars == dangerous_prefixes \cup {"'", "a"}

CellInputs ==
  {NoneV, IntV(0), IntV(7), IntV(0 - 5), IntV(120), BoolV(TRUE), BoolV(FALSE)}
    \cup {TextV(t) : t \in SeqsUpTo(CellChars, MaxLen)}

\* the pieces raw paths are made of
PathTokens ==
  { <<".">>, <<"/">>, <<"a">>, <<"l">>, <<"c", "s", "v">>, <<"C", "s", "V">>, <<"t", "x", "t">> }

RECURSIVE Flatten(_)
Flatten(tokens) == IF tokens = <<>> THEN <<>> ELSE Head(tokens) \o Flatten(Tail(tokens))

RawPaths == {Flatten(ts) : ts \in SeqsUpTo(PathTokens, MaxTokens)}

\* "d.csv", "d.csv/o.csv", "../o.csv" and "d.csv/o.txt"
PathD == <<"d", ".", "c", "s", "v">>
PathDO == PathD \o <<"/", "o", ".", "c", "s", "v">>
PathUp == <<".", ".", "/", "o", ".", "c", "s", "v">>
PathTxt == PathD \o <<"/", "o", ".", "t", "x", "t">>
CallPaths == {PathD, PathDO, PathUp, PathTxt}

\* {"=a": "1", "'=a": "2"}: two keys with the same sanitized form
RowA == << << <<"=", "a">>, TextV(<<"1">>) >>, << <<"'", "=", "a">>, TextV(<<"2">>) >> >>
\* {"b": '",\n', "=a": -5, "c": None}
RowB == << << <<"b">>, TextV(<<"\"", ",", "\n">>) >>, << <<"=", "a">>, IntV(0 - 5) >>,
           << <<"c">>, NoneV >> >>

\* the default file_permissions, 0o644, and 0o600
DefaultPermissions == 420
OwnerOnly == 384

\* a file another program wrote: the header line  =a,b  and nothing else
ForeignFs ==
  PutFile(EmptyFs, Resolve(PathD),
          <<"=", "a", ",", "b", "\r", "\n">>, DefaultPermissions)

\* the same file with no line terminator after its header
ForeignUnterminatedFs ==
  PutFile(EmptyFs, Resolve(PathD), <<"=", "a", ",", "b">>, DefaultPermissions)

-----------------------------------------------------------------------------
(* Actions *)

\* the records of the file a raw path resolves to, 0 when there is none
RecordCount(f, filepath) ==
  LET path == Resolve(filepath)
  IN  IF path \in DOMAIN f.files THEN Len(ParseRecords(f.files[path].content)) ELSE 0

\* sanitize_cell(cellIn)
SanitizeCall ==
  /\ cellOut.kind = "pending"
  /\ cellOut' = [cellOut EXCEPT !.kind = "done", !.text = sanitize_cell(cellIn)]
  /\ UNCHANGED <<cellIn, rawPath, validated, fs, call, log>>

\* the text sanitize_cell returned is handed to it again
Resanitize ==
  /\ cellOut.kind = "done"
  /\ cellOut.n = 0
  /\ cellIn' = TextV(cellOut.text)
  /\ cellOut' = [kind |-> "pending", text |-> <<>>, first |-> cellOut.text, n |-> 1]
  /\ UNCHANGED <<rawPath, validated, fs, call, log>>

\* validate_filepath(rawPath)
ValidateCall ==
  /\ validated.kind = "pending"
  /\ validated' = validate_filepath(rawPath)
  /\ UNCHANGED <<cellIn, cellOut, rawPath, fs, call, log>>

\* write_csv_secure(filepath, data, fieldnames, file_permissions=...)
Write(filepath, data, fieldnames, file_permissions) ==
  LET r == write_csv_secure(fs, filepath, data, fieldnames, file_permissions)
      path == Resolve(filepath)
      names == IF fieldnames.none THEN RowKeys(data[1]) ELSE fieldnames.names
      header == [j \in 1..Len(names) |-> sanitize_cell(TextV(names[j]))]
  IN  /\ fs' = r.fs
      /\ call' = [op |-> "write", filepath |-> filepath, data |-> data,
                  fieldnames |-> fieldnames, outcome |-> r.outcome, pre |-> fs]
      /\ log' = IF r.outcome.kind = "ok"
                THEN (path :> (<<header>> \o RowRecords(data, header))) @@ log
                ELSE log
      /\ UNCHANGED <<cellIn, cellOut, rawPath, validated>>

\* append_csv_secure(filepath, data)
AppendRows(filepath, data) ==
  LET r == append_csv_secure(fs, filepath, data)
      path == Resolve(filepath)
  IN  /\ RecordCount(fs, filepath) + Len(data) <= MaxRecords + 1
      /\ fs' = r.fs
      /\ call' = [op |-> "append", filepath |-> filepath, data |-> data,
                  fieldnames |-> NoFieldnames, outcome |-> r.outcome, pre |-> fs]
      /\ log' = IF r.outcome.kind = "ok" /\ path \in DOMAIN log
                THEN [log EXCEPT ![path] = @ \o RowRecords(data, log[path][1])]
                ELSE log
      /\ UNCHANGED <<cellIn, cellOut, rawPath, validated>>

-----------------------------------------------------------------------------
(* Specifications *)

\* the pipelines over several paths: rejections and failures
ErrRowLists == SeqsUpTo({RowB}, MaxRows)
ErrFieldnames == {NoFieldnames, Fieldnames(<<>>), Fieldnames(<< <<"b">> >>)}

Init ==
  /\ cellIn = NoneV /\ cellOut = Pending
  /\ rawPath = <<>> /\ validated = NotValidated
  /\ fs = EmptyFs /\ call = NoCall /\ log = NoLog

Next ==
  \/ \E p \in CallPaths, d \in ErrRowLists, f \in ErrFieldnames,
        m \in {DefaultPermissions, OwnerOnly} : Write(p, d, f, m)
  \/ \E p \in CallPaths, d \in ErrRowLists : AppendRows(p, d)

Spec == Init /\ [][Next]_vars

\* the pipelines on one path: the table they leave in the file
TableRowLists == SeqsUpTo({RowA, RowB}, MaxRows)
TableFieldnames ==
  {NoFieldnames, Fieldnames(<<>>), Fieldnames(<< <<"b">>, <<"=", "a">> >>)}

InitTable ==
  /\ cellIn = NoneV /\ cellOut = Pending
  /\ rawPath = <<>> /\ validated = NotValidated
  /\ fs \in {EmptyFs, ForeignFs, ForeignUnterminatedFs} /\ call = NoCall /\ log = NoLog

NextTable ==
  \/ \E d \in TableRowLists, f \in TableFieldnames : Write(PathD, d, f, DefaultPermissions)
  \/ \E d \in TableRowLists : AppendRows(PathD, d)

SpecTable == InitTable /\ [][NextTable]_vars

\* sanitize_cell on every input, and on its own output
InitSanitize ==
  /\ cellIn \in CellInputs /\ cellOut = Pending
  /\ rawPath = <<>> /\ validated = NotValidated
  /\ fs = EmptyFs /\ call = NoCall /\ log = NoLog

NextSanitize == SanitizeCall \/ Resanitize

SpecSanitize == InitSanitize /\ [][NextSanitize]_vars

\* validate_filepath on every raw path
InitValidate ==
  /\ cellIn = NoneV /\ cellOut = Pending
  /\ rawPath \in RawPaths /\ validated = NotValidated
  /\ fs = EmptyFs /\ call = NoCall /\ log = NoLog

NextValidate == ValidateCall

SpecValidate == InitValidate /\ [][NextValidate]_vars

-----------------------------------------------------------------------------
(* Properties *)

CsvSuffix == <<".", "c", "s", "v">>

\* the two-dot sequence somewhere in a text
TwoDotsIn(s) == \E i \in 1..Len(s) : i < Len(s) /\ SubSeq(s, i, i + 1) = <<".", ".">>

ValidationKinds == {"empty-input", "invalid-path", "invalid-extension", "not-found", "no-header"}

Called == call.op # "none"
Succeeded(op) == call.op = op /\ call.outcome.kind = "ok"

\* the file the last call was about, before and after it
TargetPath == Resolve(call.filepath)
ContentBefore == call.pre.files[TargetPath].content
ContentNow == fs.files[TargetPath].content

\* the text the last call put after what the file held
AddedText == SubSeq(ContentNow, Len(ContentBefore) + 1, Len(ContentNow))

\* C1: sanitize_cell returns, for every input, the reference result: the empty
\* text for None; the canonical text behind an apostrophe when that text begins
\* with one of = + - @ tab CR LF; the canonical text itself in every other case.
C1_SanitizeReference ==
  cellOut.kind = "done" =>
    LET t == Str(cellIn)
        triggers == t # <<>> /\ t[1] \in {"=", "+", "-", "@", "\t", "\r", "\n"}
    IN  /\ cellIn.t = "none" => cellOut.text = <<>>
        /\ (cellIn.t # "none" /\ triggers) =>
             (cellOut.text[1] = "'" /\ Tail(cellOut.text) = t)
        /\ (cellIn.t # "none" /\ ~triggers) => cellOut.text = t

\* a number whose canonical text begins with '-' has been sanitized
C1_Witness ==
  cellOut.kind = "done" /\ cellIn = IntV(0 - 5) /\ cellOut.text = <<"'", "-", "5">>

\* C2: sanitize_cell is idempotent: handed its own result, it returns it unchanged.
C2_Idempotent ==
  (cellOut.kind = "done" /\ cellOut.n = 1) => cellOut.text = cellOut.first

\* the result of sanitizing a dangerous text has been sanitized again
C2_Witness ==
  /\ cellOut.kind = "done" /\ cellOut.n = 1
  /\ Len(cellOut.first) > 1 /\ cellOut.first[1] = "'" /\ cellOut.first[2] = "="

\* C3: validate_filepath rejects with invalid-path exactly the raw strings that
\* contain the two-dot sequence, whatever they resolve to and whatever their
\* extension.
C3_TwoDotsRejected ==
  validated.kind # "pending" => (TwoDotsIn(rawPath) <=> validated.kind = "invalid-path")

\* a raw string with two dots that resolves to a path with the .csv suffix was rejected
C3_Witness ==
  /\ validated.kind = "invalid-path"
  /\ Lower(Suffix(Resolve(rawPath))) = CsvSuffix
  /\ \A i \in 1..Len(Resolve(rawPath)) : Resolve(rawPath)[i] # <<".", ".">>

\* C4: a raw string without the two-dot sequence is rejected with
\* invalid-extension exactly when the lowered suffix of its resolved path is not
\* .csv, and is otherwise accepted with the resolved path as the result.
C4_ExtensionOfResolved ==
  (validated.kind # "pending" /\ ~TwoDotsIn(rawPath)) =>
    /\ validated.kind = "invalid-extension" <=> Lower(Suffix(Resolve(rawPath))) # CsvSuffix
    /\ validated.kind # "invalid-extension" => validated = Accepted(Resolve(rawPath))

\* a path was accepted through a symbolic link: the result is not the raw path
\* made absolute, and its suffix is not that of the raw string
C4_Witness ==
  /\ validated.kind = "ok"
  /\ validated.path # ResolveLexical(rawPath)
  /\ Suffix(ResolveLexical(rawPath)) # Suffix(validated.path)

\* C5: a call that ends with a validation kind leaves the file system as it was.
C5_RejectionTouchesNothing ==
  (Called /\ call.outcome.kind \in ValidationKinds) => fs = call.pre

\* a write was rejected for its extension while the parent directory of its
\* path does not exist
C5_Witness ==
  /\ call.op = "write" /\ call.outcome.kind = "invalid-extension"
  /\ Parent(TargetPath) \notin fs.dirs

\* C6: after a successful write over the columns C (given, or the keys of the
\* first row), the file reads back as the sanitized names of C followed by one
\* record per row, whose field under column c is sanitize_cell(row[c]) when the
\* row has key c and empty when it has not.
C6_WriteRoundTrip ==
  Succeeded("write") =>
    LET columns == IF call.fieldnames.none THEN RowKeys(call.data[1])
                   ELSE call.fieldnames.names
        header == [j \in 1..Len(columns) |-> sanitize_cell(TextV(columns[j]))]
        record(row) == [j \in 1..Len(columns) |->
                          IF HasKey(row, columns[j])
                          THEN sanitize_cell(RowValue(row, columns[j])) ELSE <<>>]
    IN  ParseRecords(ContentNow) =
          <<header>> \o [i \in 1..Len(call.data) |-> record(call.data[i])]

\* C7: a file the calls have written holds the header of its most recent write
\* as its first record, then that write's rows, then the rows of every later
\* append, in call order and input order, and nothing else.
C7_OneHeaderThenRows ==
  \A path \in DOMAIN log :
    path \in DOMAIN fs.files /\ ParseRecords(fs.files[path].content) = log[path]

\* rows were appended to a file that a write had put a header and rows in
C7_Witness ==
  /\ Succeeded("append")
  /\ TargetPath \in DOMAIN log
  /\ Len(log[TargetPath]) >= 3
  /\ Len(ParseRecords(ContentBefore)) >= 2

\* C8 as stated: the appended records hold, under each header column, the
\* sanitized value of the row's key equal to the column's name, and are empty
\* where the row has no such key.
C8_AppendByLiteralKey ==
  Succeeded("append") =>
    LET header == ParseRecords(ContentBefore)[1]
        record(row) == [j \in 1..Len(header) |->
                          IF HasKey(row, header[j])
                          THEN sanitize_cell(RowValue(row, header[j])) ELSE <<>>]
    IN  /\ SubSeq(ContentNow, 1, Len(ContentBefore)) = ContentBefore
        /\ ParseRecords(AddedText) = [i \in 1..Len(call.data) |-> record(call.data[i])]

\* C8 as amended: a row key names the header column that equals its sanitized
\* form.  The appended records follow the old content unchanged, one per row in
\* input order, each with one field per header column: the sanitized value of
\* the last key of the row whose sanitized form is the column's name, empty
\* when the row has no such key.
C8_AppendBySanitizedKey ==
  Succeeded("append") =>
    LET header == ParseRecords(ContentBefore)[1]
        named(row, column) ==
          {n \in 1..Len(row) : sanitize_cell(TextV(row[n][1])) = column}
        record(row) == [j \in 1..Len(header) |->
                          IF named(row, header[j]) = {} THEN <<>>
                          ELSE sanitize_cell(row[Last(named(row, header[j]))][2])]
    IN  /\ SubSeq(ContentNow, 1, Len(ContentBefore)) = ContentBefore
        /\ ParseRecords(AddedText) = [i \in 1..Len(call.data) |-> record(call.data[i])]

\* a row was appended under a header column that only the sanitized form of
\* one of its keys names, and another of its keys was dropped
C8_Witness ==
  /\ Succeeded("append")
  /\ LET header == ParseRecords(ContentBefore)[1]
         columns == {header[j] : j \in 1..Len(header)}
         row == call.data[1]
     IN  /\ \E n \in 1..Len(row) :
               /\ row[n][1] \notin columns
               /\ sanitize_cell(TextV(row[n][1])) \in columns
         /\ \E n \in 1..Len(row) : sanitize_cell(TextV(row[n][1])) \notin columns

\* C9: a call that an I/O step fails ends as io-failure with the underlying
\* error as its cause, never as the underlying error itself.
C9_IoFailureWrapped ==
  Called =>
    /\ call.outcome.kind \in {"ok", "io-failure"} \cup ValidationKinds
    /\ call.outcome.kind = "io-failure" => call.outcome.cause # ""

\* C10 as stated: whatever the rows, a call whose path the validator rejects
\* ends with the validator's kind.
C10_ValidatorFirst ==
  (Called /\ validate_filepath(call.filepath).kind # "ok") =>
    call.outcome.kind = validate_filepath(call.filepath).kind

\* C10 as amended: a call with no rows ends as empty-input whatever its path;
\* a call with rows whose path the validator rejects ends with the validator's
\* kind, before anything else is looked at.
C10_ValidatorAfterEmptyCheck ==
  Called =>
    /\ call.data = <<>> => call.outcome.kind = "empty-input"
    /\ (call.data # <<>> /\ validate_filepath(call.filepath).kind # "ok") =>
         call.outcome.kind = validate_filepath(call.filepath).kind

\* an append with rows was rejected for its extension, its path naming nothing
\* that exists
C10_Witness ==
  /\ call.op = "append" /\ call.data # <<>>
  /\ call.outcome.kind = "invalid-extension"
  /\ ~Exists(fs, TargetPath)

=============================================================================
